---- MODULE Spec2Model ----
(***************************************************************************)
(* rest-layer-sqlite3: the CRUD engine of Handler (Find, Insert, Update,   *)
(* Delete) over one table of a database/sql session shared by concurrent   *)
(* callers.                                                                *)
(*                                                                         *)
(* Every statement of the handlers is executed through h.session (the      *)
(* *sql.DB), never through the *sql.Tx returned by h.session.Begin(): a    *)
(* statement issued on the session is auto-committed by the engine as one  *)
(* atomic step, and the transaction object only records Begin / Commit /   *)
(* Rollback.  Datastore calls are the interleaving points of a handler.    *)
(***************************************************************************)
EXTENDS Integers, Sequences, FiniteSets, TLC

\* ------------------------------------------------------------------ bounds
MaxItems == 2      \* longest item list handed to Insert
MaxOffset == 1     \* largest offset handed to Find
MaxLimit == 1      \* largest limit handed to Find
MaxText == 2       \* longest text of a filter value and of a column matched by LIKE
MaxKids == 2       \* most children of an And / Or group
MaxValues == 2     \* most values of an In / NotIn
MaxSort == 2       \* most entries of a sort spec

\* ------------------------------------------------------------------ inputs
Procs == {"p1", "p2"}
Caller == "p1"     \* the caller of the single-caller specification
Ids == {"a", "b"}
Etags == {"e1", "e2"}

\* a payload value with its Go dynamic type: val holds its text, num its number
StrVal(s) == [type |-> "string", val |-> s, num |-> 0]
ListVal == [type |-> "[]string", val |-> "l", num |-> 0]
IntVal(n) == [type |-> "int", val |-> "", num |-> n]
\* the float64 with integer part w and the fraction digits f
FloatVal(w, f) == [type |-> "float64", val |-> f, num |-> w]
\* a bool: num is 1 for true, 0 for false
BoolVal(b) == [type |-> "bool", val |-> "", num |-> IF b THEN 1 ELSE 0]
\* the time.Time t seconds after 2006-01-02 15:04:00 -0700
TimeVal(t) == [type |-> "time.Time", val |-> "", num |-> t]
\* a key the payload map does not hold
Absent == [type |-> "absent", val |-> "", num |-> 0]
\* the NULL of a column no statement has set
Null == [type |-> "nil", val |-> "", num |-> 0]
Vals == {StrVal("x"), StrVal("y")}
PayloadVals == Vals \cup {ListVal}

\* Updated of the version of an item that carries etag e
Stamp(e) == IF e = "e1" THEN TimeVal(1) ELSE TimeVal(2)

\* resource.Item: ID, ETag, Updated and the payload fields created and f1
\* (payload["id"] = ID)
Item(id, etag, created, f1) ==
    [id |-> id, etag |-> etag, updated |-> Stamp(etag), created |-> created, f1 |-> f1]
Items == {Item(id, etag, TimeVal(0), f1) : id \in Ids, etag \in Etags, f1 \in PayloadVals}
NoItem == [id |-> "", etag |-> "", updated |-> TimeVal(0), created |-> Absent, f1 |-> StrVal("")]

\* the items handed to Insert: the first version of an item
Fresh == {i \in Items : i.etag = "e1" /\ i.f1 \in {StrVal("x"), ListVal}}

\* the (id, etag) pairs a caller holds of an item it read earlier
Originals == {i \in Items : i.f1 = StrVal("x")}

\* the concurrent callers contend for one row
Contended == {i \in Originals : i.id = "a"}

RECURSIVE SeqsUpTo(_, _)
SeqsUpTo(S, n) ==
    IF n = 0 THEN {<<>>}
    ELSE LET shorter == SeqsUpTo(S, n - 1)
         IN shorter \cup {Append(s, x) : s \in {t \in shorter : Len(t) = n - 1}, x \in S}

\* ------------------------------------------------------------------ state
VARIABLES
    table,       \* the committed rows of h.tableName
    pc,          \* position of each caller inside its handler
    op,          \* the handler a caller is in / was last in
    args,        \* the arguments of that call
    idx,         \* Insert: index of the next item of the range loop
    tx,          \* the *sql.Tx of the call: state and number of Commit/Rollback calls
    ret,         \* the error returned by the call
    affected,    \* rows affected reported by the last Exec of the call (discarded by
                 \* the code but in Clear, which returns it; -1 when there is none)
    pre,         \* the rows with the call's id when the call began (Clear: all rows)
    cancelled,   \* ctx was cancelled while the transaction was open
    found,       \* Find: the *resource.ItemList returned
    clause,      \* the result of getQuery in the call
    orderBy,     \* the result of getSort in the call
    issued,      \* number of statements the call handed to h.session
    statement    \* the result of a statement builder called on its own

vars ==
    <<table, pc, op, args, idx, tx, ret, affected, pre, cancelled, found, clause, orderBy, issued,
      statement>>

\* query.Equal{Field, Value}
Equal(f, v) == [op |-> "Equal", field |-> f, value |-> v]

\* the query.Expression variants
And(subs) == [op |-> "And", subs |-> subs]
Or(subs) == [op |-> "Or", subs |-> subs]
In(f, vs) == [op |-> "In", field |-> f, values |-> vs]
NotIn(f, vs) == [op |-> "NotIn", field |-> f, values |-> vs]
NotEqual(f, v) == [op |-> "NotEqual", field |-> f, value |-> v]
GreaterThan(f, v) == [op |-> "GreaterThan", field |-> f, value |-> v]
GreaterOrEqual(f, v) == [op |-> "GreaterOrEqual", field |-> f, value |-> v]
LowerThan(f, v) == [op |-> "LowerThan", field |-> f, value |-> v]
LowerOrEqual(f, v) == [op |-> "LowerOrEqual", field |-> f, value |-> v]
\* an Expression of a type the switch of translateQuery has no case for
Regex(f, v) == [op |-> "Regex", field |-> f, value |-> v]

\* resource.Lookup: the filter (a query.Query) and the sort ([]string, nil when never set)
NilSort == [isnil |-> TRUE, fields |-> <<>>]
Sort(fs) == [isnil |-> FALSE, fields |-> fs]
Filters ==
    {<<>>} \cup {<<Equal("id", StrVal(i))>> : i \in Ids} \cup {<<Equal("f1", v)>> : v \in PayloadVals}
      \cup {<<Or(<<Equal("f1", StrVal("x")), Equal("f1", StrVal("y"))>>)>>,
            <<And(<<Equal("id", StrVal("a")), Equal("f1", ListVal)>>)>>,
            <<Or(<<Equal("f1", StrVal("x")), And(<<Regex("f1", StrVal("x"))>>)>>)>>}
Sorts == {NilSort, Sort(<<>>), Sort(<<"-id">>)}
Lookups == [filter : Filters, sort : Sorts]
NoLookup == [filter |-> <<>>, sort |-> NilSort]

NoArgs ==
    [items |-> <<>>, item |-> NoItem, original |-> NoItem,
     lookup |-> NoLookup, offset |-> 0, limit |-> 0]
NoTx == [state |-> "none", ends |-> 0, commitErr |-> "nil"]

\* a (string, error) result not computed in the call
Unset == [str |-> "", err |-> "unset"]

\* (*resource.ItemList)(nil)
NilList == [isnil |-> TRUE, items |-> <<>>, total |-> 0, offset |-> 0, limit |-> 0]

\* ------------------------------------------------------------- value codec
SupportedTypes == {"int", "float64", "bool", "string", "time.Time"}

\* valueToString: the error it returns
valueToStringErr(v) == IF v.type \in SupportedTypes THEN "nil" ELSE "ErrNotImplemented"

\* the values of the keys the payload of an item holds besides id
PayloadOf(i) == {v \in {i.created, i.f1} : v # Absent}

\* getInsert: the error it returns (ETag is a string, Updated a time.Time)
getInsertErr(i) ==
    IF \A v \in PayloadOf(i) : valueToStringErr(v) = "nil" THEN "nil" ELSE "ErrNotImplemented"

\* getUpdate: the error it returns
getUpdateErr(i, o) ==
    IF \A v \in PayloadOf(i) : valueToStringErr(v) = "nil" THEN "nil" ELSE "ErrNotImplemented"

\* ---------------------------------------------------------- query compiler
\* the expression variants translateQuery has a case for
LeafOps ==
    {"Equal", "NotEqual", "GreaterThan", "GreaterOrEqual", "LowerThan", "LowerOrEqual"}
SetOps == {"In", "NotIn"}
GroupOps == {"And", "Or"}

\* a (string, error) result; "panic" is a run-time panic of the goroutine
\* (slice bounds out of range, index out of range), which returns nothing
Ok(s) == [str |-> s, err |-> "nil"]
Err(e) == [str |-> "", err |-> e]
Panic == Err("panic")

\* the decimal digits
Digits == <<"0", "1", "2", "3", "4", "5", "6", "7", "8", "9">>

\* time.Time.String() of the instant t seconds after 2006-01-02 15:04:00 -0700
TimeString(t) == "2006-01-02 15:04:0" \o Digits[t + 1] \o " -0700 MST"

\* fmt.Sprintf("%v", i) of an int, a float64, a bool
FormatV(v) ==
    CASE v.type = "int" -> ToString(v.num)
      [] v.type = "float64" -> ToString(v.num) \o "." \o v.val
      [] v.type = "bool" -> IF v.num = 1 THEN "true" ELSE "false"

\* a codec that writes a value of any other type as a string
valueToString_AnyType(v) ==
    CASE v.type \in {"int", "float64", "bool"} -> Ok(FormatV(v))
      [] v.type = "time.Time" -> Ok("'" \o TimeString(v.num) \o "'")
      [] OTHER -> Ok("'" \o v.val \o "'")

\* valueToString
valueToString(v) ==
    CASE v.type \in {"int", "float64", "bool"} -> Ok(FormatV(v))
      [] v.type = "string" -> Ok("'" \o v.val \o "'")
      [] v.type = "time.Time" -> Ok("'" \o TimeString(v.num) \o "'")
      [] OTHER -> Err("ErrNotImplemented")

\* the loop of valuesToString from its k-th value on, str built so far
RECURSIVE valuesToStringFrom(_, _, _)
valuesToStringFrom(vs, k, str) ==
    IF k > Len(vs)
    THEN IF Len(str) < 1 THEN Panic ELSE Ok(SubSeq(str, 1, Len(str) - 1))
    ELSE LET r == valueToString(vs[k])
         IN IF r.err # "nil" THEN Err(r.err)
            ELSE valuesToStringFrom(vs, k + 1, str \o r.str \o ",")

\* valuesToString
valuesToString(vs) == valuesToStringFrom(vs, 1, "")

\* strings.Replace(s, old, new, -1) for a one-character old
RECURSIVE Replace(_, _, _)
Replace(s, old, new) ==
    IF s = "" THEN ""
    ELSE (IF SubSeq(s, 1, 1) = old THEN new ELSE SubSeq(s, 1, 1))
             \o Replace(SubSeq(s, 2, Len(s)), old, new)

\* the pattern of a string Equal / NotEqual
LikePattern(v) == Replace(Replace(v, "*", "%"), "_", "\\_")

\* the operator text of the ordering comparisons
CompareOps ==
    [GreaterThan |-> " > ", GreaterOrEqual |-> " >= ", LowerThan |-> " < ", LowerOrEqual |-> " <= "]

RECURSIVE translateQuery(_)
RECURSIVE translateExp(_)
RECURSIVE translateSubs(_, _, _, _)
RECURSIVE translateSubs_SkipFailed(_, _, _, _)

\* a loop that skips a child that fails to compile
translateSubs_SkipFailed(subs, k, s, sep) ==
    IF k > Len(subs) THEN Ok(s)
    ELSE LET sb == translateQuery(<<subs[k]>>)
         IN IF sb.err # "nil" THEN translateSubs_SkipFailed(subs, k + 1, s, sep)
            ELSE translateSubs_SkipFailed(subs, k + 1, s \o sb.str \o sep, sep)

\* the loop over the children of an And / Or from the k-th child on
translateSubs(subs, k, s, sep) ==
    IF k > Len(subs) THEN Ok(s)
    ELSE LET sb == translateQuery(<<subs[k]>>)
         IN IF sb.err # "nil" THEN Err(sb.err)
            ELSE translateSubs(subs, k + 1, s \o sb.str \o sep, sep)

\* a group without its parentheses
Group_NoParens(s, n) == IF Len(s) < n THEN Panic ELSE Ok(SubSeq(s, 1, Len(s) - n))

\* "(" + s[:len(s)-n] + ")": the slice panics when s is shorter than n
Group(s, n) == IF Len(s) < n THEN Panic ELSE Ok("(" \o SubSeq(s, 1, Len(s) - n) \o ")")

\* a switch that never takes the string case
IsString_Never(v) == FALSE

\* switch t.Value.(type) { case string:
IsString(v) == v.type = "string"

\* one case of the type switch of translateQuery: the text appended to str
translateExp(e) ==
    CASE e.op = "And" ->
           LET s == translateSubs(e.subs, 1, "", " AND ")
           IN IF s.err # "nil" THEN s ELSE Group(s.str, 5)
      [] e.op = "Or" ->
           LET s == translateSubs(e.subs, 1, "", " OR ")
           IN IF s.err # "nil" THEN s ELSE Group(s.str, 4)
      [] e.op \in {"In", "NotIn"} ->
           LET v == valuesToString(e.values)
           IN IF v.err = "panic" THEN Panic
              ELSE IF v.err # "nil" THEN Err("ErrNotImplemented")
              ELSE Ok(e.field \o (IF e.op = "In" THEN " IN (" ELSE " NOT IN (") \o v.str \o ")")
      [] e.op \in {"Equal", "NotEqual"} ->
           LET v == valueToString(e.value)
           IN IF v.err # "nil" THEN Err("ErrNotImplemented")
              ELSE IF IsString(e.value)
              THEN Ok(e.field \o (IF e.op = "Equal" THEN " LIKE " ELSE " NOT LIKE ")
                          \o LikePattern(v.str) \o " ESCAPE '\\'")
              ELSE Ok(e.field \o (IF e.op = "Equal" THEN " IS " ELSE " IS NOT ") \o v.str)
      [] e.op \in DOMAIN CompareOps ->
           LET v == valueToString(e.value)
           IN IF v.err # "nil" THEN Err("ErrNotImplemented")
              ELSE Ok(e.field \o CompareOps[e.op] \o v.str)
      [] OTHER -> Err("ErrNotImplemented")

\* the range loop of translateQuery from the k-th expression on
RECURSIVE translateQueryFrom(_, _, _)
translateQueryFrom(q, k, str) ==
    IF k > Len(q) THEN Ok(str)
    ELSE LET t == translateExp(q[k])
         IN IF t.err # "nil" THEN Err(t.err)
            ELSE translateQueryFrom(q, k + 1, str \o t.str)

\* translateQuery
translateQuery(q) == translateQueryFrom(q, 1, "")

\* translateQuery of the filters drawn for Find and Clear, computed once
QueryOfFilter == [f \in Filters |-> translateQuery(f)]

\* getQuery: translateQuery(l.Filter())
getQuery(l) ==
    IF l.filter \in Filters THEN QueryOfFilter[l.filter] ELSE translateQuery(l.filter)

\* the loop of translateSort from the k-th entry on
RECURSIVE translateSortFrom(_, _, _)
translateSortFrom(l, k, str) ==
    IF k > Len(l) THEN Ok(SubSeq(str, 1, Len(str) - 1))
    ELSE IF l[k] = "" THEN Panic
    ELSE IF SubSeq(l[k], 1, 1) = "-"
    THEN translateSortFrom(l, k + 1, str \o SubSeq(l[k], 2, Len(l[k])) \o " DESC" \o ",")
    ELSE translateSortFrom(l, k + 1, str \o l[k] \o ",")

\* a sort compiler without the default
translateSort_NoDefault(l) == translateSortFrom(l, 1, "")

\* translateSort
translateSort(l) == IF Len(l) = 0 THEN Ok("id") ELSE translateSortFrom(l, 1, "")

\* getSort
getSort(l) == translateSort(l.sort.fields)

\* ------------------------------------------------------------- statements
RowsWithId(t, id) == {r \in t : r.id = id}

\* the text an SQL string literal denotes
SqlLiteral(text) == StrVal(SubSeq(text, 2, Len(text) - 1))

\* the column value a statement stores for the value v of an item: the text
\* of the literal valueToString builds, NULL for a key the payload lacks
Stored(v) == IF v = Absent THEN Null ELSE SqlLiteral(valueToString(v).str)

\* INSERT INTO table(etag,updated,id,created,f1) VALUES(...): the PRIMARY KEY
\* rejects a duplicate id
InsertViolates(t, i) == RowsWithId(t, i.id) # {}
InsertRow(t, i) ==
    t \cup {[id |-> i.id, etag |-> i.etag, updated |-> Stored(i.updated),
             created |-> Stored(i.created), f1 |-> Stored(i.f1)]}

\* a WHERE gate that forgets the etag
UpdateWhere_IdOnly(r, o) == r.id = o.id

\* the WHERE gate of getUpdate: WHERE id=<o.ID> AND etag=<o.ETag>
UpdateWhere(r, o) == r.id = o.id /\ r.etag = o.etag

\* a SET list that forgets the etag
UpdateRows_KeepEtag(t, i, o) ==
    {IF UpdateWhere(r, o)
     THEN [id |-> r.id, etag |-> r.etag, updated |-> Stored(i.updated),
           created |-> IF i.created = Absent THEN r.created ELSE Stored(i.created),
           f1 |-> Stored(i.f1)]
     ELSE r : r \in t}

\* UPDATE OR ROLLBACK table SET etag=<i.ETag>,updated=..,f1=<i.f1> WHERE ...
UpdateRows(t, i, o) ==
    {IF UpdateWhere(r, o)
     THEN [id |-> r.id, etag |-> i.etag, updated |-> Stored(i.updated),
           created |-> IF i.created = Absent THEN r.created ELSE Stored(i.created),
           f1 |-> Stored(i.f1)]
     ELSE r : r \in t}
UpdateAffected(t, o) == Cardinality({r \in t : UpdateWhere(r, o)})

\* DELETE FROM table WHERE id = '<item.ID>'
DeleteWhere(r, i) == r.id = i.id
\* a DELETE without its WHERE clause
DeleteRows_All(t, i) == {}

DeleteRows(t, i) == {r \in t : ~DeleteWhere(r, i)}
DeleteAffected(t, i) == Cardinality({r \in t : DeleteWhere(r, i)})

\* a comparison that reports a stale etag as a missing row
compareEtags_StaleIsMissing(t, id, origEtag) ==
    IF \A r \in RowsWithId(t, id) : r.etag # origEtag THEN "ErrNotFound" ELSE "nil"

\* compareEtags: SELECT etag FROM table WHERE id='<id>', then the comparison
compareEtags(t, id, origEtag) ==
    IF RowsWithId(t, id) = {} THEN "ErrNotFound"
    ELSE IF \E r \in RowsWithId(t, id) : r.etag # origEtag THEN "ErrConflict"
    ELSE "nil"

\* ------------------------------------------------------------- bookkeeping
InTx(p) == tx[p].state = "open"
Ready(p) == pc[p] \in {"idle", "done"}

\* the errors txPtr.Commit() may return: none, or that of the driver
CommitErrs == {"nil", "ErrCommit"}

\* txPtr.Commit() was called and returned err; txPtr.Rollback() was called
Commit(p, err) ==
    [tx EXCEPT ![p] = [state |-> "committed", ends |-> @.ends + 1, commitErr |-> err]]
Rollback(p) ==
    [tx EXCEPT ![p] = [state |-> "rolledback", ends |-> @.ends + 1, commitErr |-> "nil"]]

Begin(p, o, a, start) ==
    /\ Ready(p)
    /\ pc' = [pc EXCEPT ![p] = start]
    /\ op' = [op EXCEPT ![p] = o]
    /\ args' = [args EXCEPT ![p] = a]
    /\ idx' = [idx EXCEPT ![p] = 1]
    /\ tx' = [tx EXCEPT ![p] = [state |-> "open", ends |-> 0, commitErr |-> "nil"]]
    /\ ret' = [ret EXCEPT ![p] = "pending"]
    /\ affected' = [affected EXCEPT ![p] = -1]
    /\ cancelled' = [cancelled EXCEPT ![p] = FALSE]
    /\ found' = [found EXCEPT ![p] = NilList]
    /\ clause' = [clause EXCEPT ![p] = Unset]
    /\ orderBy' = [orderBy EXCEPT ![p] = Unset]
    /\ issued' = [issued EXCEPT ![p] = 0]
    /\ UNCHANGED <<table, statement>>

\* a failure path that returns without txPtr.Rollback()
Fail_NoRollback(p, err) ==
    /\ tx' = tx
    /\ ret' = [ret EXCEPT ![p] = err]
    /\ pc' = [pc EXCEPT ![p] = "done"]

\* return err after txPtr.Rollback()
Fail(p, err) ==
    /\ tx' = Rollback(p)
    /\ ret' = [ret EXCEPT ![p] = err]
    /\ pc' = [pc EXCEPT ![p] = "done"]

\* txPtr.Commit() with its result dropped, then return nil
Succeed(p) ==
    /\ \E err \in CommitErrs : tx' = Commit(p, err)
    /\ ret' = [ret EXCEPT ![p] = "nil"]
    /\ pc' = [pc EXCEPT ![p] = "done"]

\* ------------------------------------------------------------------ Insert
InsertBegin(p, items) ==
    /\ Begin(p, "Insert", [NoArgs EXCEPT !.items = items], "insert")
    /\ pre' = [pre EXCEPT ![p] = {r \in table : \E k \in 1..Len(items) : items[k].id = r.id}]

\* one iteration of the range loop: getInsert, then h.session.Exec
InsertItem(p) ==
    /\ pc[p] = "insert"
    /\ idx[p] <= Len(args[p].items)
    /\ LET i == args[p].items[idx[p]] IN
       IF getInsertErr(i) # "nil"
       THEN /\ Fail(p, getInsertErr(i))
            /\ UNCHANGED <<table, idx, affected, issued>>
       ELSE IF InsertViolates(table, i)
       THEN /\ Fail(p, "ErrConstraint")
            /\ issued' = [issued EXCEPT ![p] = @ + 1]
            /\ UNCHANGED <<table, idx, affected>>
       ELSE /\ table' = InsertRow(table, i)
            /\ idx' = [idx EXCEPT ![p] = @ + 1]
            /\ affected' = [affected EXCEPT ![p] = 1]
            /\ issued' = [issued EXCEPT ![p] = @ + 1]
            /\ UNCHANGED <<tx, ret, pc>>
    /\ UNCHANGED <<op, args, pre, cancelled, found, clause, orderBy, statement>>

\* the loop is over: txPtr.Commit(), return nil
InsertCommit(p) ==
    /\ pc[p] = "insert"
    /\ idx[p] > Len(args[p].items)
    /\ Succeed(p)
    /\ UNCHANGED <<table, op, args, idx, affected, pre, cancelled, found, clause, orderBy, statement, issued>>

\* ------------------------------------------------------------------ Update
UpdateBegin(p, item, original) ==
    /\ Begin(p, "Update", [NoArgs EXCEPT !.item = item, !.original = original], "upd_compare")
    /\ pre' = [pre EXCEPT ![p] = RowsWithId(table, original.id)]

UpdateCompare(p) ==
    /\ pc[p] = "upd_compare"
    /\ LET err == compareEtags(table, args[p].original.id, args[p].original.etag) IN
       IF err # "nil"
       THEN Fail(p, err)
       ELSE /\ pc' = [pc EXCEPT ![p] = "upd_exec"]
            /\ UNCHANGED <<tx, ret>>
    /\ issued' = [issued EXCEPT ![p] = @ + 1]
    /\ UNCHANGED <<table, op, args, idx, affected, pre, cancelled, found, clause, orderBy, statement>>

\* getUpdate, h.session.Exec, txPtr.Commit()
UpdateExec(p) ==
    /\ pc[p] = "upd_exec"
    /\ LET i == args[p].item
           o == args[p].original
       IN IF getUpdateErr(i, o) # "nil"
          THEN /\ Fail(p, getUpdateErr(i, o))
               /\ UNCHANGED <<table, affected, issued>>
          ELSE /\ table' = UpdateRows(table, i, o)
               /\ affected' = [affected EXCEPT ![p] = UpdateAffected(table, o)]
               /\ issued' = [issued EXCEPT ![p] = @ + 1]
               /\ Succeed(p)
    /\ UNCHANGED <<op, args, idx, pre, cancelled, found, clause, orderBy, statement>>

\* ------------------------------------------------------------------ Delete
DeleteBegin(p, item) ==
    /\ Begin(p, "Delete", [NoArgs EXCEPT !.item = item], "del_compare")
    /\ pre' = [pre EXCEPT ![p] = RowsWithId(table, item.id)]

DeleteCompare(p) ==
    /\ pc[p] = "del_compare"
    /\ LET err == compareEtags(table, args[p].item.id, args[p].item.etag) IN
       IF err # "nil"
       THEN Fail(p, err)
       ELSE /\ pc' = [pc EXCEPT ![p] = "del_exec"]
            /\ UNCHANGED <<tx, ret>>
    /\ issued' = [issued EXCEPT ![p] = @ + 1]
    /\ UNCHANGED <<table, op, args, idx, affected, pre, cancelled, found, clause, orderBy, statement>>

\* h.session.Prepare, stmt.Exec, txPtr.Commit()
DeleteExec(p) ==
    /\ pc[p] = "del_exec"
    /\ table' = DeleteRows(table, args[p].item)
    /\ affected' = [affected EXCEPT ![p] = DeleteAffected(table, args[p].item)]
    /\ issued' = [issued EXCEPT ![p] = @ + 1]
    /\ Succeed(p)
    /\ UNCHANGED <<op, args, idx, pre, cancelled, found, clause, orderBy, statement>>

\* ------------------------------------------------------------ cancellation
\* the caller's context is cancelled while the call holds its transaction open;
\* no handler reads ctx
Cancel(p) ==
    /\ InTx(p)
    /\ ~cancelled[p]
    /\ cancelled' = [cancelled EXCEPT ![p] = TRUE]
    /\ UNCHANGED <<table, pc, op, args, idx, tx, ret, affected, pre, found, clause, orderBy, statement, issued>>

\* -------------------------------------------------------------------- Find
\* translateQuery: the error it returns
translateQueryErr(q) == translateQuery(q).err

\* getSelect: the error it returns, and the clauses of the statement it builds
getSelectErr(l) == translateQueryErr(l.filter)
getSelect(l, offset, limit) ==
    [where |-> l.filter,
     ordered |-> ~l.sort.isnil,
     orderby |-> l.sort.fields,
     hasLimit |-> limit >= 0, limit |-> limit,
     hasOffset |-> offset > 0, offset |-> offset]

\* the value of a column of a row
Column(r, f) == IF f = "id" THEN StrVal(r.id) ELSE r.f1

\* s LIKE p ESCAPE '\' of the engine, on texts without upper-case letters:
\* % matches any run of characters, _ any one character, and the character
\* after the escape character matches itself
RECURSIVE Like(_, _)
Like(s, p) ==
    IF p = "" THEN s = ""
    ELSE LET c == SubSeq(p, 1, 1)
             ps == SubSeq(p, 2, Len(p))
             ss == SubSeq(s, 2, Len(s))
         IN IF c = "\\"
            THEN /\ ps # "" /\ s # ""
                 /\ SubSeq(s, 1, 1) = SubSeq(ps, 1, 1)
                 /\ Like(ss, SubSeq(ps, 2, Len(ps)))
            ELSE IF c = "%" THEN \E k \in 0..Len(s) : Like(SubSeq(s, k + 1, Len(s)), ps)
            ELSE IF c = "_" THEN s # "" /\ Like(ss, ps)
            ELSE s # "" /\ SubSeq(s, 1, 1) = c /\ Like(ss, ps)

\* the clause translateQuery builds for the expression e, evaluated by the
\* engine on the row r (the filters of Find and Clear drawn here hold no
\* ordering comparison)
RECURSIVE Holds(_, _)
Holds(r, e) ==
    CASE e.op = "And" -> \A k \in 1..Len(e.subs) : Holds(r, e.subs[k])
      [] e.op = "Or" -> \E k \in 1..Len(e.subs) : Holds(r, e.subs[k])
      [] e.op = "In" -> \E k \in 1..Len(e.values) : Column(r, e.field) = e.values[k]
      [] e.op = "NotIn" ->
           Column(r, e.field) # Null /\ \A k \in 1..Len(e.values) : Column(r, e.field) # e.values[k]
      [] e.op = "Equal" /\ e.value.type = "string" ->
           /\ Column(r, e.field).type = "string"
           /\ Like(Column(r, e.field).val, LikePattern(e.value.val))
      [] e.op = "NotEqual" /\ e.value.type = "string" ->
           /\ Column(r, e.field).type = "string"
           /\ ~Like(Column(r, e.field).val, LikePattern(e.value.val))
      [] e.op = "Equal" /\ e.value.type # "string" -> Column(r, e.field) = e.value
      [] e.op = "NotEqual" /\ e.value.type # "string" -> Column(r, e.field) # e.value

\* the WHERE clause of a statement on a row (no WHERE clause when the filter
\* is empty; the filters of Find and Clear drawn here hold one expression at
\* most)
Matches(r, q) == \A k \in 1..Len(q) : Holds(r, q[k])

RECURSIVE Perms(_)
Perms(S) ==
    IF S = {} THEN {<<>>}
    ELSE UNION {{<<x>> \o s : s \in Perms(S \ {x})} : x \in S}

IdRank(id) == IF id = "a" THEN 1 ELSE 2

\* the orders in which the engine may return the rows: ORDER BY id, ORDER BY
\* id DESC, or any order when the statement has no ORDER BY
RowOrders(S, stmt) ==
    {s \in Perms(S) :
        \A i \in 1..Len(s), j \in 1..Len(s) :
            (stmt.ordered /\ i < j) =>
                IF stmt.orderby = <<"-id">> THEN IdRank(s[i].id) > IdRank(s[j].id)
                ELSE IdRank(s[i].id) < IdRank(s[j].id)}

Min(a, b) == IF a < b THEN a ELSE b

\* LIMIT / OFFSET applied to the ordered rows
Page(s, stmt) ==
    LET from == IF stmt.hasOffset THEN stmt.offset + 1 ELSE 1
        to == IF stmt.hasLimit THEN Min(Len(s), from + stmt.limit - 1) ELSE Len(s)
    IN SubSeq(s, from, to)

\* h.session.Query: the engine rejects OFFSET without LIMIT as a syntax error
QueryErr(stmt) == IF stmt.hasOffset /\ ~stmt.hasLimit THEN "ErrSyntax" ELSE "nil"

\* an engine that takes a DELETE with an empty WHERE clause
ExecDeleteErr_AcceptsEmpty(q) == "nil"

\* h.session.Exec of the statement of getDelete: with an empty clause the
\* statement is DELETE FROM table WHERE ; which the engine rejects
ExecDeleteErr(q) == IF q.str = "" THEN "ErrSyntax" ELSE "nil"
QueryRows(t, stmt) == {Page(s, stmt) : s \in RowOrders({r \in t : Matches(r, stmt.where)}, stmt)}

\* time.Parse("2006-01-02 15:04:05.99999999 -0700 MST", s) of the texts
\* TimeString writes: the instant, or a parse error
ParseTime(s) ==
    IF /\ Len(s) = 29
       /\ SubSeq(s, 1, 18) = "2006-01-02 15:04:0"
       /\ SubSeq(s, 20, 29) = " -0700 MST"
       /\ \E t \in 0..9 : Digits[t + 1] = SubSeq(s, 19, 19)
    THEN [t |-> CHOOSE t \in 0..9 : Digits[t + 1] = SubSeq(s, 19, 19), err |-> "nil"]
    ELSE [t |-> 0, err |-> "ErrParse"]

\* newItem: the error it returns; created.(string) and updated.(string)
\* panic on a column that is NULL or that the table does not have
newItemErr(r) ==
    IF r.created.type # "string" THEN "panic"
    ELSE IF ParseTime(r.created.val).err # "nil" THEN ParseTime(r.created.val).err
    ELSE IF r.updated.type # "string" THEN "panic"
    ELSE ParseTime(r.updated.val).err

\* newItem: the item of a row
newItem(r) ==
    [id |-> r.id, etag |-> r.etag, updated |-> TimeVal(ParseTime(r.updated.val).t),
     created |-> TimeVal(ParseTime(r.created.val).t), f1 |-> r.f1]

\* newItemList: the error of the first row newItem fails on
newItemListErr(rows) ==
    LET bad == {k \in 1..Len(rows) : newItemErr(rows[k]) # "nil"}
    IN IF bad = {} THEN "nil"
       ELSE newItemErr(rows[CHOOSE k \in bad : \A j \in bad : k <= j])

\* newItemList: the list it returns
newItemList(rows, offset, limit) ==
    [isnil |-> FALSE,
     items |-> [k \in 1..Len(rows) |-> newItem(rows[k])],
     total |-> Len(rows), offset |-> offset, limit |-> limit]

Find(p, lookup, offset, limit) ==
    /\ Ready(p)
    /\ pc' = [pc EXCEPT ![p] = "done"]
    /\ op' = [op EXCEPT ![p] = "Find"]
    /\ args' = [args EXCEPT ![p] = [NoArgs EXCEPT !.lookup = lookup, !.offset = offset, !.limit = limit]]
    /\ idx' = [idx EXCEPT ![p] = 1]
    /\ tx' = [tx EXCEPT ![p] = NoTx]
    /\ affected' = [affected EXCEPT ![p] = -1]
    /\ pre' = [pre EXCEPT ![p] = {}]
    /\ cancelled' = [cancelled EXCEPT ![p] = FALSE]
    /\ LET stmt == getSelect(lookup, offset, limit)
           q == getQuery(lookup)
       IN /\ clause' = [clause EXCEPT ![p] = q]
          /\ IF q.err # "nil"
             THEN /\ ret' = [ret EXCEPT ![p] = q.err]
                  /\ found' = [found EXCEPT ![p] = NilList]
                  /\ orderBy' = [orderBy EXCEPT ![p] = Unset]
                  /\ issued' = [issued EXCEPT ![p] = 0]
             ELSE /\ orderBy' = [orderBy EXCEPT ![p] =
                                    IF lookup.sort.isnil THEN Unset ELSE getSort(lookup)]
                  /\ issued' = [issued EXCEPT ![p] = 1]
                  /\ IF QueryErr(stmt) # "nil"
                     THEN /\ ret' = [ret EXCEPT ![p] = QueryErr(stmt)]
                          /\ found' = [found EXCEPT ![p] = NilList]
                     ELSE \E rows \in QueryRows(table, stmt) :
                          LET err == newItemListErr(rows)
                          IN /\ ret' = [ret EXCEPT ![p] = err]
                             /\ found' = [found EXCEPT ![p] =
                                              IF err # "nil" THEN NilList
                                              ELSE newItemList(rows, offset, limit)]
    /\ UNCHANGED <<table, statement>>

\* ------------------------------------------------------------------- Clear
\* getDelete, h.session.Exec, result.RowsAffected
Clear(p, lookup) ==
    /\ Ready(p)
    /\ pc' = [pc EXCEPT ![p] = "done"]
    /\ op' = [op EXCEPT ![p] = "Clear"]
    /\ args' = [args EXCEPT ![p] = [NoArgs EXCEPT !.lookup = lookup]]
    /\ idx' = [idx EXCEPT ![p] = 1]
    /\ tx' = [tx EXCEPT ![p] = NoTx]
    /\ pre' = [pre EXCEPT ![p] = table]
    /\ cancelled' = [cancelled EXCEPT ![p] = FALSE]
    /\ found' = [found EXCEPT ![p] = NilList]
    /\ clause' = [clause EXCEPT ![p] = getQuery(lookup)]
    /\ orderBy' = [orderBy EXCEPT ![p] = Unset]
    /\ UNCHANGED statement
    /\ LET q == getQuery(lookup) IN
       IF q.err # "nil"
       THEN /\ ret' = [ret EXCEPT ![p] = q.err]
            /\ affected' = [affected EXCEPT ![p] = -1]
            /\ issued' = [issued EXCEPT ![p] = 0]
            /\ UNCHANGED table
       ELSE IF ExecDeleteErr(q) # "nil"
       THEN /\ ret' = [ret EXCEPT ![p] = ExecDeleteErr(q)]
            /\ affected' = [affected EXCEPT ![p] = -1]
            /\ issued' = [issued EXCEPT ![p] = 1]
            /\ UNCHANGED table
       ELSE /\ ret' = [ret EXCEPT ![p] = "nil"]
            /\ affected' = [affected EXCEPT ![p] = Cardinality({r \in table : Matches(r, lookup.filter)})]
            /\ issued' = [issued EXCEPT ![p] = 1]
            /\ table' = {r \in table : ~Matches(r, lookup.filter)}

\* ------------------------------------------------------------- specification
\* no call yet; the caller holds the arguments a
Idle(a) ==
    /\ pc = [p \in Procs |-> "idle"]
    /\ op = [p \in Procs |-> "none"]
    /\ args = [p \in Procs |-> IF p = Caller THEN a ELSE NoArgs]
    /\ idx = [p \in Procs |-> 1]
    /\ tx = [p \in Procs |-> NoTx]
    /\ ret = [p \in Procs |-> "pending"]
    /\ affected = [p \in Procs |-> -1]
    /\ pre = [p \in Procs |-> {}]
    /\ cancelled = [p \in Procs |-> FALSE]
    /\ found = [p \in Procs |-> NilList]
    /\ clause = [p \in Procs |-> Unset]
    /\ orderBy = [p \in Procs |-> Unset]
    /\ issued = [p \in Procs |-> 0]
    /\ statement = [p \in Procs |-> Unset]

NoCalls == Idle(NoArgs)

\* an empty table and no call yet
Init == table = {} /\ NoCalls

\* one caller issuing calls one after the other
Next ==
    \/ \E items \in SeqsUpTo(Fresh, MaxItems) : InsertBegin(Caller, items)
    \/ InsertItem(Caller)
    \/ InsertCommit(Caller)
    \/ \E item \in Items, original \in Originals : UpdateBegin(Caller, item, original)
    \/ UpdateCompare(Caller)
    \/ UpdateExec(Caller)
    \/ \E item \in Originals : DeleteBegin(Caller, item)
    \/ DeleteCompare(Caller)
    \/ DeleteExec(Caller)
    \/ Cancel(Caller)
    \/ \E lookup \in Lookups, offset \in 0..MaxOffset, limit \in -1..MaxLimit :
           Find(Caller, lookup, offset, limit)
    \/ \E filter \in Filters : Clear(Caller, [filter |-> filter, sort |-> NilSort])

Spec == Init /\ [][Next]_vars

\* concurrent callers sharing the session
NextConc ==
    \E p \in Procs :
        \/ \E items \in SeqsUpTo(Contended, MaxItems) : InsertBegin(p, items)
        \/ InsertItem(p)
        \/ InsertCommit(p)
        \/ \E item \in Contended, original \in Contended : UpdateBegin(p, item, original)
        \/ UpdateCompare(p)
        \/ UpdateExec(p)
        \/ \E item \in Contended : DeleteBegin(p, item)
        \/ DeleteCompare(p)
        \/ DeleteExec(p)

SpecConc == Init /\ [][NextConc]_vars

\* items written and read back: with and without the payload key created
RoundItems ==
    {Item("a", "e1", created, StrVal("x")) : created \in {TimeVal(0), Absent}}
      \cup {Item("b", "e1", created, StrVal("y")) : created \in {TimeVal(0), Absent}}
RoundLookups ==
    [filter : {<<Equal("id", StrVal(i))>> : i \in Ids} \cup {<<Equal("f1", v)>> : v \in Vals},
     sort : {NilSort}]

NextRound ==
    \/ \E items \in SeqsUpTo(RoundItems, MaxItems) : InsertBegin(Caller, items)
    \/ InsertItem(Caller)
    \/ InsertCommit(Caller)
    \/ \E lookup \in RoundLookups, limit \in {-1} \cup 1..MaxLimit : Find(Caller, lookup, 0, limit)

SpecRound == Init /\ [][NextRound]_vars

\* the texts of at most n characters of the alphabet A
RECURSIVE Texts(_, _)
Texts(A, n) ==
    IF n = 0 THEN {""}
    ELSE LET shorter == Texts(A, n - 1)
         IN shorter \cup {t \o c : t \in {u \in shorter : Len(u) = n - 1}, c \in A}

\* string values of Equal / NotEqual: letters, the wildcards of the value and
\* of LIKE, the escape character
LikeValues == Texts({"a", "*", "_", "%", "\\"}, MaxText)
\* texts of the column f1
ColumnTexts == Texts({"a", "_", "\\"}, MaxText)
LikeLookups ==
    [filter : {<<Equal("f1", StrVal(v))>> : v \in LikeValues}
                 \cup {<<NotEqual("f1", StrVal(v))>> : v \in LikeValues},
     sort : {NilSort}]

\* a table of one row, stored by an earlier Insert, and no call yet
InitLike ==
    /\ table \in {InsertRow({}, Item("a", "e1", TimeVal(0), StrVal(t))) : t \in ColumnTexts}
    /\ NoCalls

NextLike == \E lookup \in LikeLookups : Find(Caller, lookup, 0, -1)

SpecLike == InitLike /\ [][NextLike]_vars

\* ------------------------------------------------- the compilers on their own
\* the values of the leaves: every supported type, and a list
LeafValues ==
    {IntVal(10), FloatVal(10, "01"), BoolVal(TRUE), BoolVal(FALSE), StrVal("foo"),
     StrVal("foo_bar"), StrVal("foo*bar"), TimeVal(5), ListVal}
SetValues == {IntVal(1), StrVal("a"), ListVal}

\* every leaf variant on every value, and an expression of an unknown variant
Leaves ==
    {[op |-> o, field |-> "f1", value |-> v] : o \in LeafOps, v \in LeafValues}
      \cup {[op |-> o, field |-> "id", values |-> vs] : o \in SetOps, vs \in SeqsUpTo(SetValues, MaxValues)}
      \cup {Regex("f1", StrVal("foo"))}

\* the And / Or groups of at most kids children taken from nodes
Groups(nodes, kids) ==
    {And(subs) : subs \in SeqsUpTo(nodes, kids)} \cup {Or(subs) : subs \in SeqsUpTo(nodes, kids)}

\* the groups nested in a group: empty ones and pairs of the given leaves
Nested(leaves) ==
    {And(<<>>), Or(<<>>)} \cup {And(<<a, b>>) : a \in leaves, b \in leaves}
      \cup {Or(<<a, b>>) : a \in leaves, b \in leaves}

\* the trees of groups, and of groups of groups, over the given leaves
TreesOver(leaves, kids) == Groups(leaves \cup Nested(leaves), kids)

\* two leaves that compile, or one that compiles and one that does not
GoodLeaf == Equal("id", IntVal(10))
TreeLeaves ==
    {{GoodLeaf, e} :
        e \in {Equal("f1", StrVal("foo")), Regex("f1", StrVal("foo"))}
              \cup {[op |-> o, field |-> "f1", value |-> ListVal] : o \in LeafOps}
              \cup {[op |-> o, field |-> "id", values |-> <<IntVal(1), ListVal>>] : o \in SetOps}}

\* the expressions of the filters with several top-level expressions
TopLevel ==
    {GoodLeaf, Equal("f1", StrVal("foo")), Equal("f1", ListVal),
     Or(<<GoodLeaf, Equal("f1", StrVal("foo"))>>)}

\* the filters compiled: groups and top-level lists of at most kids expressions
CompileFilters(kids) ==
    {<<>>} \cup {<<e>> : e \in Leaves} \cup UNION {{<<t>> : t \in TreesOver(ls, kids)} : ls \in TreeLeaves}
      \cup {q \in SeqsUpTo(TopLevel, kids) : Len(q) >= 2}
CompileSorts == {Sort(fs) : fs \in SeqsUpTo({"f", "-f", "id", "-id"}, MaxSort)}
CompileLookups(kids) ==
    [filter : CompileFilters(kids), sort : {NilSort}] \cup [filter : {<<>>}, sort : CompileSorts]

InitCompile ==
    /\ table = {}
    /\ \E l \in CompileLookups(MaxKids) : Idle([NoArgs EXCEPT !.lookup = l])

\* q, err := getQuery(l)
GetQuery(p) ==
    /\ pc[p] = "idle"
    /\ clause[p] = Unset
    /\ clause' = [clause EXCEPT ![p] = getQuery(args[p].lookup)]
    /\ UNCHANGED <<table, pc, op, args, idx, tx, ret, affected, pre, cancelled, found, orderBy, statement, issued>>

\* getSort(l)
GetSort(p) ==
    /\ pc[p] = "idle"
    /\ orderBy[p] = Unset
    /\ orderBy' = [orderBy EXCEPT ![p] = getSort(args[p].lookup)]
    /\ UNCHANGED <<table, pc, op, args, idx, tx, ret, affected, pre, cancelled, found, clause, issued,
                   statement>>

NextCompile == GetQuery(Caller) \/ GetSort(Caller)

SpecCompile == InitCompile /\ [][NextCompile]_vars

\* ------------------------------------------- the statement builders on their own
\* h.tableName
TableName == "testtable"

\* the limit of the paginated SELECT of the tests
TestLimit == 10

\* getSelect: the statement text and the error it returns
SelectStatement(l, offset, limit) ==
    LET q == getQuery(l)
        sort == IF l.sort.isnil THEN Ok("") ELSE getSort(l)
    IN IF q.err # "nil" THEN Err(q.err)
       ELSE IF sort.err # "nil" THEN Err(sort.err)
       ELSE Ok("SELECT * FROM " \o TableName
                   \o (IF q.str # "" THEN " WHERE " \o q.str ELSE "")
                   \o (IF ~l.sort.isnil THEN " ORDER BY " \o sort.str ELSE "")
                   \o (IF limit >= 0 THEN " LIMIT " \o ToString(limit) ELSE "")
                   \o (IF offset > 0 THEN " OFFSET " \o ToString(offset) ELSE "")
                   \o ";")

\* the lookups and pages handed to getSelect
BuildFilters ==
    {<<>>, <<Equal("f1", StrVal("foo"))>>, <<Equal("f1", ListVal)>>,
     <<GreaterThan("f1", StrVal("it's"))>>}
BuildSorts == {NilSort} \cup {Sort(fs) : fs \in SeqsUpTo({"f1", "-f1"}, MaxSort)}
BuildLimits == -1..MaxLimit \cup {TestLimit}
SelectArgs ==
    {[NoArgs EXCEPT !.lookup = [filter |-> f, sort |-> s], !.offset = o, !.limit = n] :
        f \in BuildFilters, s \in BuildSorts, o \in 0..MaxOffset, n \in BuildLimits}

\* the keys of the payload of an item, and the value of a key
PayloadKeys(i) == {"id", "f1"} \cup (IF i.created = Absent THEN {} ELSE {"created"})
PayloadValue(i, k) ==
    IF k = "id" THEN StrVal(i.id) ELSE IF k = "created" THEN i.created ELSE i.f1

\* the range loop of getUpdate over the payload, from the n-th key of the
\* iteration order on; a is the text built so far
RECURSIVE getUpdateFrom(_, _, _, _)
getUpdateFrom(i, keys, n, a) ==
    IF n > Len(keys) THEN Ok(a)
    ELSE IF keys[n] = "id" THEN getUpdateFrom(i, keys, n + 1, a)
    ELSE LET val == valueToString(PayloadValue(i, keys[n]))
         IN IF val.err # "nil" THEN Err("ErrNotImplemented")
            ELSE getUpdateFrom(i, keys, n + 1, a \o keys[n] \o "=" \o val.str \o ",")

\* a WHERE gate built from the new item
UpdateStatement_GateOnNew(i, o, keys) ==
    LET a == getUpdateFrom(i, keys, 1,
                 "UPDATE OR ROLLBACK " \o TableName \o " SET etag=" \o valueToString(StrVal(i.etag)).str
                     \o ",updated=" \o valueToString(i.updated).str \o ",")
        z == "WHERE id=" \o valueToString(StrVal(i.id)).str
                 \o " AND etag=" \o valueToString(StrVal(i.etag)).str \o ";"
    IN IF a.err # "nil" THEN a ELSE Ok(SubSeq(a.str, 1, Len(a.str) - 1) \o " " \o z)

\* getUpdate: the statement text and the error it returns, for the order keys
\* in which the range loop visits the payload
UpdateStatement(i, o, keys) ==
    LET a == getUpdateFrom(i, keys, 1,
                 "UPDATE OR ROLLBACK " \o TableName \o " SET etag=" \o valueToString(StrVal(i.etag)).str
                     \o ",updated=" \o valueToString(i.updated).str \o ",")
        z == "WHERE id=" \o valueToString(StrVal(o.id)).str
                 \o " AND etag=" \o valueToString(StrVal(o.etag)).str \o ";"
    IN IF a.err # "nil" THEN a ELSE Ok(SubSeq(a.str, 1, Len(a.str) - 1) \o " " \o z)

\* the range loop of getInsert over the payload, from the n-th key of the
\* iteration order on; a is the column list and z the value list built so far
RECURSIVE getInsertFrom(_, _, _, _, _)
getInsertFrom(i, keys, n, a, z) ==
    IF n > Len(keys)
    THEN Ok(SubSeq(a, 1, Len(a) - 1) \o ") " \o SubSeq(z, 1, Len(z) - 1) \o ");")
    ELSE LET val == valueToString(PayloadValue(i, keys[n]))
         IN IF val.err # "nil" THEN Err("ErrNotImplemented")
            ELSE getInsertFrom(i, keys, n + 1, a \o keys[n] \o ",", z \o val.str \o ",")

\* getInsert: the statement text and the error it returns, for the order keys
\* in which the range loop visits the payload
InsertStatement(i, keys) ==
    getInsertFrom(i, keys, 1,
        "INSERT INTO " \o TableName \o "(etag,updated,",
        "VALUES(" \o valueToString(StrVal(i.etag)).str \o "," \o valueToString(i.updated).str \o ",")

\* getDelete: the statement text and the error it returns
DeleteStatement(l) ==
    LET q == getQuery(l)
    IN IF q.err # "nil" THEN Err(q.err)
       ELSE Ok("DELETE FROM " \o TableName \o " WHERE " \o q.str \o ";")

\* Delete: fmt.Sprintf("DELETE FROM %s WHERE id = '%s'", h.tableName, item.ID)
DeleteByIdStatement(i) == Ok("DELETE FROM " \o TableName \o " WHERE id = '" \o i.id \o "'")

\* compareEtags: fmt.Sprintf("SELECT etag FROM %s WHERE id='%v'", h.tableName, id)
EtagStatement(id) == Ok("SELECT etag FROM " \o TableName \o " WHERE id='" \o id \o "'")

\* texts with a quote character in them
QuotedIds == {"o'b"}
QuotedEtags == {"e'3"}
QuotedVals == {StrVal("it's")}

\* the items handed to the builders: payloads with and without created, with
\* values of several types, with and without quote characters
BuildItems ==
    {Item(id, etag, created, f1) :
        id \in Ids \cup QuotedIds, etag \in Etags \cup QuotedEtags, created \in {TimeVal(0), Absent},
        f1 \in {StrVal("x"), IntVal(1), ListVal} \cup QuotedVals}
BuildOriginals ==
    Originals \cup {Item(id, etag, TimeVal(0), StrVal("x")) : id \in QuotedIds, etag \in QuotedEtags}
UpdateArgs ==
    {[NoArgs EXCEPT !.item = i, !.original = o] : i \in BuildItems, o \in BuildOriginals}

BuildArgs == SelectArgs \cup UpdateArgs

InitBuild ==
    /\ table = {}
    /\ \E a \in BuildArgs : Idle(a)

\* a builder called on the arguments the caller holds
Built(p, builder, result) ==
    /\ pc[p] = "idle"
    /\ statement[p] = Unset
    /\ statement' = [statement EXCEPT ![p] = result]
    /\ op' = [op EXCEPT ![p] = builder]
    /\ UNCHANGED <<table, pc, args, idx, tx, ret, affected, pre, cancelled, found, clause, orderBy,
                   issued>>

\* s, err := getSelect(h, l, offset, limit)
GetSelect(p) ==
    Built(p, "getSelect", SelectStatement(args[p].lookup, args[p].offset, args[p].limit))

\* s, err := getUpdate(h, item, original): a Go map is ranged over in any order
GetUpdate(p) ==
    \E keys \in Perms(PayloadKeys(args[p].item)) :
        Built(p, "getUpdate", UpdateStatement(args[p].item, args[p].original, keys))

\* s, err := getInsert(h, i)
GetInsert(p) ==
    \E keys \in Perms(PayloadKeys(args[p].item)) :
        Built(p, "getInsert", InsertStatement(args[p].item, keys))

\* s, err := getDelete(h, lookup)
GetDelete(p) == Built(p, "getDelete", DeleteStatement(args[p].lookup))

\* the statement Delete prepares for the item
DeleteById(p) == Built(p, "Delete", DeleteByIdStatement(args[p].item))

\* the statement compareEtags queries for the original
QueryEtag(p) == Built(p, "compareEtags", EtagStatement(args[p].original.id))

NextBuild ==
    \/ GetSelect(Caller)
    \/ GetUpdate(Caller)
    \/ GetInsert(Caller)
    \/ GetDelete(Caller)
    \/ DeleteById(Caller)
    \/ QueryEtag(Caller)

SpecBuild == InitBuild /\ [][NextBuild]_vars

\* ------------------------------------------------------------------ claims
Done(p, o) == pc[p] = "done" /\ op[p] = o

\* the rows of the table that carry the id of an item of p's Insert
RowsOfCall(p) == {r \in table : \E k \in 1..Len(args[p].items) : args[p].items[k].id = r.id}

\* C1: a failed Insert leaves none of the items of the call in the table
\* (with one caller: the rows carrying the ids of the call are those that were
\* there when the call began)
C1_InsertAtomic ==
    (Done(Caller, "Insert") /\ ret[Caller] # "nil") => RowsOfCall(Caller) = pre[Caller]

\* p's Update found a row with original.id whose etag equals original.etag
PreMatch(p, o) == pre[p] # {} /\ \A r \in pre[p] : r.etag = o.etag
PreMismatch(p, o) == \E r \in pre[p] : r.etag # o.etag

\* C2 as stated: without a concurrent writer Update has exactly the outcomes
\* NotFound (no row), Conflict (etag differs), success (etag equal, and the
\* stored etag becomes newItem.etag)
C2_UpdateThreeOutcomes ==
    Done(Caller, "Update") =>
        LET o == args[Caller].original
            i == args[Caller].item
        IN /\ pre[Caller] = {} => ret[Caller] = "ErrNotFound"
           /\ PreMismatch(Caller, o) => ret[Caller] = "ErrConflict"
           /\ PreMatch(Caller, o) =>
                  /\ ret[Caller] = "nil"
                  /\ \A r \in RowsWithId(table, o.id) : r.etag = i.etag
                  /\ RowsWithId(table, o.id) # {}

\* C2 amended: the same, but when the stored etag equals original.etag and a
\* payload value of newItem is of an unsupported type, Update returns
\* NotImplemented and leaves the row as it was
C2_UpdateOutcomes ==
    Done(Caller, "Update") =>
        LET o == args[Caller].original
            i == args[Caller].item
        IN /\ pre[Caller] = {} => ret[Caller] = "ErrNotFound"
           /\ PreMismatch(Caller, o) => ret[Caller] = "ErrConflict"
           /\ (PreMatch(Caller, o) /\ i.f1.type \in SupportedTypes) =>
                  /\ ret[Caller] = "nil"
                  /\ \A r \in RowsWithId(table, o.id) : r.etag = i.etag
                  /\ RowsWithId(table, o.id) # {}
           /\ (PreMatch(Caller, o) /\ i.f1.type \notin SupportedTypes) =>
                  /\ ret[Caller] = "ErrNotImplemented"
                  /\ RowsWithId(table, o.id) = pre[Caller]

C2_Witness ==
    /\ Done(Caller, "Update")
    /\ PreMatch(Caller, args[Caller].original)
    /\ ret[Caller] = "nil"
    /\ args[Caller].item.etag # args[Caller].original.etag

\* C3: without a concurrent writer Delete returns NotFound when no row has
\* item.id, Conflict when the stored etag differs from item.etag, and
\* otherwise succeeds and the row with item.id is gone
C3_DeleteOutcomes ==
    Done(Caller, "Delete") =>
        LET i == args[Caller].item
        IN /\ pre[Caller] = {} => ret[Caller] = "ErrNotFound"
           /\ PreMismatch(Caller, i) => ret[Caller] = "ErrConflict"
           /\ PreMatch(Caller, i) => (ret[Caller] = "nil" /\ RowsWithId(table, i.id) = {})
           /\ ret[Caller] # "nil" => RowsWithId(table, i.id) = pre[Caller]

C3_Witness ==
    /\ Done(Caller, "Delete")
    /\ PreMatch(Caller, args[Caller].item)
    /\ ret[Caller] = "nil"
    /\ RowsWithId(table, args[Caller].item.id) = {}

\* C4: an Update whose guarded UPDATE statement affected no row returns
\* Conflict, never success
C4_ZeroRowsIsConflict ==
    \A p \in Procs : (Done(p, "Update") /\ affected[p] = 0) => ret[p] = "ErrConflict"

\* C5: under every interleaving, the row a Delete removes has, at the moment
\* of removal, the etag the caller supplied
C5_DeleteGuarded ==
    [][\A p \in Procs :
          (pc[p] = "del_exec" /\ pc'[p] = "done") =>
              \A r \in table \ table' : r.etag = args[p].item.etag]_vars

\* C6: under every interleaving, the guarded UPDATE of an Update changes the
\* table only when the stored etag of the row is still the etag of the
\* original that Update was given; otherwise it leaves the table as it is
C6_NoLostUpdate ==
    [][\A p \in Procs :
          (pc[p] = "upd_exec" /\ pc'[p] = "done") =>
              LET o == args[p].original
              IN /\ (\E r \in table : r.id = o.id /\ r.etag # o.etag) => table' = table
                 /\ \A r \in table \ table' : r.id = o.id /\ r.etag = o.etag]_vars

\* a later writer found the etag changed by an earlier one and modified nothing
C6_Witness ==
    \E p \in Procs :
        /\ Done(p, "Update")
        /\ affected[p] = 0
        /\ args[p].item.etag # args[p].original.etag
        /\ \E r \in table : r.id = args[p].original.id /\ r.etag # args[p].item.etag

\* C7: an Insert that fails on an item whose id is already in the table
\* returns resource.ErrConflict
C7_DuplicateIsConflict ==
    (/\ Done(Caller, "Insert")
     /\ idx[Caller] <= Len(args[Caller].items)
     /\ getInsertErr(args[Caller].items[idx[Caller]]) = "nil")
        => ret[Caller] = "ErrConflict"

WriteOps == {"Insert", "Update", "Delete"}

\* C8: a write call ends its transaction exactly once before it returns, with
\* Rollback exactly when it returns an error and with Commit only after the
\* pre-check and every statement of the call succeeded
C8_TxLifecycle ==
    \A p \in Procs :
        op[p] \in WriteOps =>
            /\ pc[p] # "done" => (tx[p].state = "open" /\ tx[p].ends = 0)
            /\ pc[p] = "done" =>
                  /\ tx[p].ends = 1
                  /\ tx[p].state \in {"committed", "rolledback"}
                  /\ tx[p].state = "rolledback" <=> ret[p] # "nil"
                  /\ tx[p].state = "committed" <=> ret[p] = "nil"
            /\ (pc[p] = "done" /\ tx[p].state = "committed") =>
                  /\ op[p] = "Insert" =>
                        /\ idx[p] = Len(args[p].items) + 1
                        /\ \A k \in 1..Len(args[p].items) : getInsertErr(args[p].items[k]) = "nil"
                  /\ op[p] = "Update" =>
                        /\ PreMatch(p, args[p].original)
                        /\ getUpdateErr(args[p].item, args[p].original) = "nil"
                        /\ affected[p] = 1
                  /\ op[p] = "Delete" => (PreMatch(p, args[p].item) /\ affected[p] = 1)

\* an Update that passed the pre-check and failed to build its statement
C8_Witness ==
    /\ Done(Caller, "Update")
    /\ PreMatch(Caller, args[Caller].original)
    /\ ret[Caller] = "ErrNotImplemented"
    /\ tx[Caller] = [state |-> "rolledback", ends |-> 1, commitErr |-> "nil"]

\* C9: a call whose context was cancelled between Begin and Commit rolls back
\* and returns the cancellation error
C9_CancelRollsBack ==
    \A p \in Procs :
        (pc[p] = "done" /\ op[p] \in WriteOps /\ cancelled[p]) =>
            (ret[p] = "Canceled" /\ tx[p].state = "rolledback")

\* C10: a Find whose filter compiles and matches no row of the table returns
\* no error and a non-nil list with no items and Total 0
C10_EmptyFind ==
    (/\ Done(Caller, "Find")
     /\ translateQueryErr(args[Caller].lookup.filter) = "nil"
     /\ \A r \in table : ~Matches(r, args[Caller].lookup.filter))
        => /\ ret[Caller] = "nil"
           /\ ~found[Caller].isnil
           /\ found[Caller].items = <<>>
           /\ found[Caller].total = 0

\* the row the INSERT statement of getInsert stores for the item i
RowOf(i) == CHOOSE r \in InsertRow({}, i) : TRUE

\* C12: after Insert, a Find whose filter selects one of the inserted items
\* returns exactly that item: same ID, ETag, Updated and payload values
C12_RoundTrip ==
    Done(Caller, "Find") =>
        \A i \in RoundItems :
            {r \in table : Matches(r, args[Caller].lookup.filter)} = {RowOf(i)}
                => /\ ret[Caller] = "nil"
                   /\ found[Caller].items = <<i>>

\* the expression e holds, at some depth, an expression of an unsupported
\* variant or a value of an unsupported type
RECURSIVE HasUnsupported(_)
HasUnsupported(e) ==
    IF e.op \in GroupOps THEN \E k \in 1..Len(e.subs) : HasUnsupported(e.subs[k])
    ELSE IF e.op \in SetOps THEN \E k \in 1..Len(e.values) : e.values[k].type \notin SupportedTypes
    ELSE IF e.op \in LeafOps THEN e.value.type \notin SupportedTypes
    ELSE TRUE

\* the caller takes a whole Find or Clear in this step
ReadOrClearStep(p) == Ready(p) /\ pc'[p] = "done" /\ op'[p] \in {"Find", "Clear"}

\* C11: a Find or a Clear whose filter holds, anywhere in its tree, an
\* unsupported expression variant or a value of an unsupported type returns
\* NotImplemented, hands no statement to the datastore and leaves the table
\* as it is; Clear also returns the count -1
C11_UnsupportedFilter ==
    [][(/\ ReadOrClearStep(Caller)
        /\ \E k \in 1..Len(args'[Caller].lookup.filter) :
               HasUnsupported(args'[Caller].lookup.filter[k]))
          => /\ ret'[Caller] = "ErrNotImplemented"
             /\ issued'[Caller] = 0
             /\ table' = table
             /\ op'[Caller] = "Clear" => affected'[Caller] = -1]_vars

\* a Clear on a table with rows, with the unsupported value nested in a group
C11_Witness ==
    /\ Done(Caller, "Clear")
    /\ args[Caller].lookup.filter = <<And(<<Equal("id", StrVal("a")), Equal("f1", ListVal)>>)>>
    /\ ret[Caller] = "ErrNotImplemented"
    /\ affected[Caller] = -1
    /\ issued[Caller] = 0
    /\ table # {}
    /\ table = pre[Caller]

\* the caller takes a whole Clear in this step
ClearStep(p) == Ready(p) /\ pc'[p] = "done" /\ op'[p] = "Clear"

\* the filter compiles: no unsupported variant or value in it
Compiles(q) == \A k \in 1..Len(q) : ~HasUnsupported(q[k])

\* the rows of t the filter q selects
Selected(t, q) == {r \in t : Matches(r, q)}

RECURSIVE Pattern(_)
Pattern(v) ==
    IF v = "" THEN ""
    ELSE LET c == SubSeq(v, 1, 1)
         IN (IF c = "*" THEN "%" ELSE IF c = "_" THEN "\\_" ELSE c) \o Pattern(SubSeq(v, 2, Len(v)))

\* the character c occurs in the text s
Occurs(c, s) == \E k \in 1..Len(s) : SubSeq(s, k, k) = c

\* t matches v when * stands for any run of characters and every other
\* character for itself
RECURSIVE GlobMatch(_, _)
GlobMatch(t, v) ==
    IF v = "" THEN t = ""
    ELSE IF SubSeq(v, 1, 1) = "*"
    THEN \E k \in 0..Len(t) : GlobMatch(SubSeq(t, k + 1, Len(t)), SubSeq(v, 2, Len(v)))
    ELSE /\ t # ""
         /\ SubSeq(t, 1, 1) = SubSeq(v, 1, 1)
         /\ GlobMatch(SubSeq(t, 2, Len(t)), SubSeq(v, 2, Len(v)))

\* the Find of the caller has the filter <<e>>, a string Equal or NotEqual
LikeFind(e) ==
    /\ Done(Caller, "Find")
    /\ args[Caller].lookup.filter = <<e>>
    /\ e.op \in {"Equal", "NotEqual"}
    /\ e.value.type = "string"

\* C14: for every string v, Equal(f, v) compiles to f LIKE '<p>' ESCAPE '\' and
\* NotEqual(f, v) to f NOT LIKE '<p>' ESCAPE '\', p being v with * replaced by
\* % and _ by backslash-underscore; an underscore of v matches only an
\* underscore of the column (a value with an underscore and no * selects only
\* texts with an underscore), and * matches any run of characters (for values
\* of letters, * and _ the rows selected are those the glob v matches)
C14_StringEqualIsLike ==
    \A e \in {args[Caller].lookup.filter[k] : k \in 1..Len(args[Caller].lookup.filter)} :
        LikeFind(e) =>
            LET v == e.value.val
                hit == found[Caller].items # <<>>
            IN /\ clause[Caller] =
                      Ok(e.field \o (IF e.op = "Equal" THEN " LIKE '" ELSE " NOT LIKE '")
                             \o Pattern(v) \o "' ESCAPE '\\'")
               /\ ret[Caller] = "nil"
               /\ \A r \in table :
                     /\ (e.op = "Equal" /\ hit /\ Occurs("_", v) /\ ~Occurs("*", v))
                            => Occurs("_", r.f1.val)
                     /\ (e.op = "Equal" /\ ~Occurs("\\", v)) => (hit <=> GlobMatch(r.f1.val, v))
                     /\ (e.op = "NotEqual" /\ ~Occurs("\\", v)) => (hit <=> ~GlobMatch(r.f1.val, v))

\* the expression is of a supported variant, its values are of supported
\* types and, at every depth, its groups and value lists are not empty
RECURSIVE WellFormed(_)
WellFormed(e) ==
    IF e.op \in GroupOps THEN e.subs # <<>> /\ \A k \in 1..Len(e.subs) : WellFormed(e.subs[k])
    ELSE IF e.op \in SetOps
    THEN e.values # <<>> /\ \A k \in 1..Len(e.values) : e.values[k].type \in SupportedTypes
    ELSE e.op \in LeafOps /\ e.value.type \in SupportedTypes

\* the clause of a tree: a leaf as translateQuery compiles it, a group as its
\* children's clauses with the separator between them, in parentheses
RECURSIVE ClauseOf(_)
RECURSIVE JoinClauses(_, _)
JoinClauses(subs, sep) ==
    IF Len(subs) = 1 THEN ClauseOf(subs[1])
    ELSE ClauseOf(subs[1]) \o sep \o JoinClauses(Tail(subs), sep)
ClauseOf(e) ==
    IF e.op \in GroupOps
    THEN "(" \o JoinClauses(e.subs, IF e.op = "And" THEN " AND " ELSE " OR ") \o ")"
    ELSE translateQuery(<<e>>).str

\* the number of occurrences of the character c among the first n of s
Count(c, s, n) == Cardinality({k \in 1..n : SubSeq(s, k, k) = c})

\* the parentheses of s are balanced: as many closed as opened, and never
\* more closed than opened so far
Balanced(s) ==
    /\ Count("(", s, Len(s)) = Count(")", s, Len(s))
    /\ \A n \in 1..Len(s) : Count("(", s, n) >= Count(")", s, n)

\* getQuery has run on the caller's filter
Compiled == clause[Caller] # Unset

\* C15: a tree of supported variants whose groups are not empty compiles, each
\* And / Or node to its children's clauses in their order joined by " AND " /
\* " OR " and enclosed in parentheses, recursively; the parentheses balance
C15_GroupsParenthesized ==
    \A k \in 1..Len(args[Caller].lookup.filter) :
        LET e == args[Caller].lookup.filter[k]
        IN (Compiled /\ Len(args[Caller].lookup.filter) = 1 /\ WellFormed(e)) =>
               /\ clause[Caller] = Ok(ClauseOf(e))
               /\ Balanced(clause[Caller].str)
               /\ e.op \in GroupOps =>
                      /\ SubSeq(clause[Caller].str, 1, 1) = "("
                      /\ SubSeq(clause[Caller].str, Len(clause[Caller].str), Len(clause[Caller].str)) = ")"

\* a group nested in a group, both of two children
C15_Witness ==
    /\ Compiled
    /\ args[Caller].lookup.filter =
           <<And(<<GoodLeaf, Or(<<Equal("f1", StrVal("foo")), GoodLeaf>>)>>)>>
    /\ clause[Caller] = Ok("(id IS 10 AND (f1 LIKE 'foo' ESCAPE '\\' OR id IS 10))")

\* the expression holds, at some depth, a leaf with a value of an unsupported type
RECURSIVE HasBadValue(_)
HasBadValue(e) ==
    IF e.op \in GroupOps THEN \E k \in 1..Len(e.subs) : HasBadValue(e.subs[k])
    ELSE IF e.op \in SetOps THEN \E k \in 1..Len(e.values) : e.values[k].type \notin SupportedTypes
    ELSE e.op \in LeafOps /\ e.value.type \notin SupportedTypes

\* at every depth of the expression the groups have children
RECURSIVE GroupsNonEmpty(_)
GroupsNonEmpty(e) ==
    e.op \in GroupOps => (e.subs # <<>> /\ \A k \in 1..Len(e.subs) : GroupsNonEmpty(e.subs[k]))

\* C16: a leaf of any variant, at any depth of a tree whose groups are not
\* empty, with a value of a type other than int, float64, bool, string and
\* time.Time makes translateQuery return ErrNotImplemented and the empty
\* clause: no panic, no text
C16_BadValueNotImplemented ==
    \A k \in 1..Len(args[Caller].lookup.filter) :
        LET e == args[Caller].lookup.filter[k]
        IN (Compiled /\ Len(args[Caller].lookup.filter) = 1 /\ GroupsNonEmpty(e) /\ HasBadValue(e))
               => clause[Caller] = [str |-> "", err |-> "ErrNotImplemented"]

\* a list as the value of a comparison nested two groups deep
C16_Witness ==
    /\ Compiled
    /\ args[Caller].lookup.filter =
           <<Or(<<GoodLeaf, And(<<GoodLeaf, LowerThan("f1", ListVal)>>)>>)>>
    /\ clause[Caller] = [str |-> "", err |-> "ErrNotImplemented"]

\* the expression holds, at some depth, a group without children
RECURSIVE HasEmptyGroup(_)
HasEmptyGroup(e) ==
    e.op \in GroupOps /\ (e.subs = <<>> \/ \E k \in 1..Len(e.subs) : HasEmptyGroup(e.subs[k]))

\* the call returned an error to its caller, and no clause
ReturnedError(r) == r.err \notin {"nil", "panic", "unset"} /\ r.str = ""

\* C17: compiling an And or an Or without children returns an error to the
\* caller: no clause such as (), no abort
C17_EmptyGroupIsError ==
    \A k \in 1..Len(args[Caller].lookup.filter) :
        (Compiled /\ HasEmptyGroup(args[Caller].lookup.filter[k])) => ReturnedError(clause[Caller])

\* the codec texts of the values joined by commas
RECURSIVE JoinValues(_)
JoinValues(vs) ==
    IF Len(vs) = 1 THEN valueToString(vs[1]).str
    ELSE valueToString(vs[1]).str \o "," \o JoinValues(Tail(vs))

\* C18: In(f, values) compiles to f IN (v1,...,vn) and NotIn(f, values) to
\* f NOT IN (v1,...,vn), the encoded values in their order, when n >= 1; with
\* no value the compilation returns an error to the caller: no clause, no abort
C18_InCompiles ==
    \A k \in 1..Len(args[Caller].lookup.filter) :
        LET e == args[Caller].lookup.filter[k]
        IN (/\ Compiled
            /\ Len(args[Caller].lookup.filter) = 1
            /\ e.op \in SetOps
            /\ \A j \in 1..Len(e.values) : e.values[j].type \in SupportedTypes)
               => IF e.values # <<>>
                  THEN clause[Caller] =
                           Ok(e.field \o (IF e.op = "In" THEN " IN (" ELSE " NOT IN (")
                                  \o JoinValues(e.values) \o ")")
                  ELSE ReturnedError(clause[Caller])

\* the text sub occurs in the text s
Contains(s, sub) == \E k \in 1..(Len(s) - Len(sub) + 1) : SubSeq(s, k, k + Len(sub) - 1) = sub

\* the bare literals of the numbers and booleans drawn
BareLiterals ==
    {<<IntVal(10), "10">>, <<FloatVal(10, "01"), "10.01">>,
     <<BoolVal(TRUE), "true">>, <<BoolVal(FALSE), "false">>}

SortPart(entry) ==
    IF SubSeq(entry, 1, 1) = "-" THEN SubSeq(entry, 2, Len(entry)) \o " DESC" ELSE entry

RECURSIVE JoinSort(_)
JoinSort(fs) == IF Len(fs) = 1 THEN SortPart(fs[1]) ELSE SortPart(fs[1]) \o "," \o JoinSort(Tail(fs))

\* getSort has run on the caller's sort spec
Sorted == orderBy[Caller] # Unset

\* C20: translateSort maps the empty sort spec to id and any other to its
\* entries in their order joined by commas, -f as f DESC and f as f: as many
\* parts as entries, no comma at the end
C20_SortCompiles ==
    Sorted =>
        LET fs == args[Caller].lookup.sort.fields
            out == orderBy[Caller]
        IN IF fs = <<>> THEN out = Ok("id")
           ELSE /\ out = Ok(JoinSort(fs))
                /\ Count(",", out.str, Len(out.str)) = Len(fs) - 1
                /\ SubSeq(out.str, Len(out.str), Len(out.str)) # ","

\* a descending entry before an ascending one
C20_Witness ==
    /\ Sorted
    /\ args[Caller].lookup.sort.fields = <<"-f", "id">>
    /\ orderBy[Caller] = Ok("f DESC,id")

\* the timestamp columns of the row r cannot be read back: created or updated
\* is NULL (or a column the table lacks), or its text is not in the format
Unreadable(r) ==
    \/ r.created.type # "string"
    \/ r.updated.type # "string"
    \/ ParseTime(r.created.val).err # "nil"
    \/ ParseTime(r.updated.val).err # "nil"

\* C21: a Find that reads back a row whose created or updated column is NULL,
\* missing or not parseable returns an error to its caller and no list: it
\* does not panic and does not return the other rows or a default timestamp
\* (the lookups drawn select at most one row, so the rows selected are the
\* rows read back)
C21_ReadErrorReturned ==
    (/\ Done(Caller, "Find")
     /\ \E r \in Selected(table, args[Caller].lookup.filter) : Unreadable(r))
        => /\ ret[Caller] \notin {"nil", "panic"}
           /\ found[Caller].isnil

\* getSelect has run on the caller's lookup, offset and limit
SelectBuilt == op[Caller] = "getSelect" /\ statement[Caller] # Unset

\* the ORDER BY text of the sort entries fs: id when there is none
OrderByText(fs) == IF fs = <<>> THEN "id" ELSE JoinSort(fs)

\* C22: for a lookup whose filter compiles, getSelect returns SELECT * FROM
\* <table>, then WHERE <filter> iff the filter text is not empty, then ORDER BY
\* <sort>, then LIMIT <limit> iff limit >= 0, then OFFSET <offset> iff
\* offset > 0, then a semicolon
C22_SelectOrder ==
    LET l == args[Caller].lookup
        q == translateQuery(l.filter)
    IN (SelectBuilt /\ q.err = "nil") =>
           statement[Caller] =
               Ok("SELECT * FROM " \o TableName
                      \o (IF q.str # "" THEN " WHERE " \o q.str ELSE "")
                      \o " ORDER BY " \o OrderByText(l.sort.fields)
                      \o (IF args[Caller].limit >= 0
                          THEN " LIMIT " \o ToString(args[Caller].limit) ELSE "")
                      \o (IF args[Caller].offset > 0
                          THEN " OFFSET " \o ToString(args[Caller].offset) ELSE "")
                      \o ";")

\* C23: every SELECT statement getSelect builds for Find holds an ORDER BY
\* clause, and the clause is ORDER BY id when the lookup has no sort entry
C23_AlwaysOrdered ==
    (SelectBuilt /\ statement[Caller].err = "nil") =>
        /\ Contains(statement[Caller].str, " ORDER BY ")
        /\ args[Caller].lookup.sort.fields = <<>>
               => Contains(statement[Caller].str, " ORDER BY id")

\* C24: a statement of getSelect built with an unbounded limit (limit < 0)
\* holds no OFFSET clause, whatever the offset
C24_NoOffsetWithoutLimit ==
    (SelectBuilt /\ statement[Caller].err = "nil" /\ args[Caller].limit < 0) =>
        ~Contains(statement[Caller].str, " OFFSET ")

\* getUpdate has run on the caller's item and original
UpdateBuilt == op[Caller] = "getUpdate" /\ statement[Caller] # Unset

\* ,k=<v> for the keys in their order, v in the encoding of the codec
RECURSIVE Assignments(_, _)
Assignments(i, keys) ==
    IF keys = <<>> THEN ""
    ELSE "," \o keys[1] \o "=" \o valueToString(PayloadValue(i, keys[1])).str
             \o Assignments(i, Tail(keys))

\* C25: getUpdate(newItem, original) returns UPDATE OR ROLLBACK <table> SET
\* etag=<new etag>,updated=<new updated>, then k=<v> for every payload key of
\* newItem but id (in some order), then WHERE id=<original id> AND
\* etag=<original etag>; the values are those of the codec and the id column
\* is not assigned
C25_UpdateStatement ==
    LET i == args[Caller].item
        o == args[Caller].original
    IN (UpdateBuilt /\ statement[Caller].err = "nil") =>
           /\ \E keys \in Perms(PayloadKeys(i) \ {"id"}) :
                  statement[Caller].str =
                      "UPDATE OR ROLLBACK " \o TableName
                          \o " SET etag=" \o valueToString(StrVal(i.etag)).str
                          \o ",updated=" \o valueToString(i.updated).str
                          \o Assignments(i, keys)
                          \o " WHERE id=" \o valueToString(StrVal(o.id)).str
                          \o " AND etag=" \o valueToString(StrVal(o.etag)).str \o ";"
           /\ ~Contains(statement[Caller].str, ",id=")

\* the statement of an update that changes the etag and carries another id
\* in its payload than the original
C25_Witness ==
    /\ UpdateBuilt
    /\ args[Caller].item.id = "b"
    /\ args[Caller].original.id = "a"
    /\ args[Caller].item.etag = "e2"
    /\ args[Caller].original.etag = "e1"
    /\ statement[Caller] =
           Ok("UPDATE OR ROLLBACK testtable SET etag='e2',updated='2006-01-02 15:04:02 -0700 MST',"
                  \o "f1='x',created='2006-01-02 15:04:00 -0700 MST' WHERE id='a' AND etag='e1';")

\* C26: with one caller, the UPDATE of a successful Update(newItem, original)
\* changes no row but the one with original.id and keeps that row's id (also
\* when the payload of newItem carries another id); the DELETE of a successful
\* Delete(item) removes the row with item.id and no other; and every other
\* step of an Update or a Delete, so every call that returns NotFound or
\* Conflict, leaves the table as it is
C26_Frame ==
    [][LET o == args[Caller].original
           exec == pc'[Caller] = "done" /\ ret'[Caller] = "nil"
       IN /\ (pc[Caller] = "upd_exec" /\ exec) =>
                 /\ table' \ RowsWithId(table', o.id) = table \ RowsWithId(table, o.id)
                 /\ Cardinality(RowsWithId(table', o.id)) = 1
                 /\ Cardinality(table') = Cardinality(table)
          /\ (pc[Caller] = "del_exec" /\ exec) =>
                 table' = table \ RowsWithId(table, args[Caller].item.id)
          /\ (op'[Caller] \in {"Update", "Delete"} /\ ~exec) => table' = table
          /\ (op'[Caller] \in {"Update", "Delete"}
                /\ ret'[Caller] \in {"ErrNotFound", "ErrConflict"}) => table' = table]_vars

\* an Update whose new item carries the id of another stored row: the row of
\* the original has the new etag and its own id, the other row is as it was
C26_Witness ==
    /\ Done(Caller, "Update")
    /\ ret[Caller] = "nil"
    /\ args[Caller].original.id = "a"
    /\ args[Caller].item.id = "b"
    /\ args[Caller].item.etag = "e2"
    /\ \E r \in table : r.id = "a" /\ r.etag = "e2"
    /\ \E r \in table : r.id = "b" /\ r.etag = "e1"
    /\ Cardinality(table) = 2

\* C27: an Insert, Update or Delete that returned nil committed its
\* transaction, and the Commit returned no error
C27_CommitChecked ==
    \A p \in Procs :
        (pc[p] = "done" /\ op[p] \in WriteOps /\ ret[p] = "nil") =>
            (tx[p].state = "committed" /\ tx[p].commitErr = "nil")

\* the clauses of the expressions of q, each compiled on its own, with AND
\* between them
RECURSIVE Conjunction(_)
Conjunction(q) ==
    IF q = <<>> THEN ""
    ELSE IF Len(q) = 1 THEN translateQuery(<<q[1]>>).str
    ELSE translateQuery(<<q[1]>>).str \o " AND " \o Conjunction(Tail(q))

\* C28: a filter of two or more top-level expressions that all compile
\* compiles to their clauses joined by AND, and the empty filter compiles to
\* the empty clause with no error
C28_TopLevelConjunction ==
    LET q == args[Caller].lookup.filter
    IN (Compiled /\ \A k \in 1..Len(q) : translateQuery(<<q[k]>>).err = "nil") =>
           clause[Caller] = Ok(Conjunction(q))

\* the positions of the quote characters of s from the position from on
QuotesFrom(s, from) == {k \in from..Len(s) : SubSeq(s, k, k) = "'"}
First(S) == CHOOSE k \in S : \A j \in S : k <= j

\* the structure of the statement s from the position from on: its text
\* without its string literals, as the engine delimits them (a literal runs
\* from a quote to the next quote, two quotes in a row inside a literal being
\* a literal that ends and one that begins at once); a literal that is not
\* closed leaves its quote
RECURSIVE Structure(_, _)
Structure(s, from) ==
    LET ks == QuotesFrom(s, from)
    IN IF ks = {} THEN SubSeq(s, from, Len(s))
       ELSE LET open == First(ks)
                rest == ks \ {open}
            IN IF rest = {} THEN SubSeq(s, from, open - 1) \o "'"
               ELSE SubSeq(s, from, open - 1) \o Structure(s, First(rest) + 1)

\* the same value, item and filter with every string replaced by a plain text
Plain(v) == IF v.type = "string" THEN StrVal("x") ELSE v
PlainItem(i) == [i EXCEPT !.id = "x", !.etag = "x", !.f1 = Plain(@)]
PlainLookup(l) ==
    [l EXCEPT !.filter = [k \in 1..Len(l.filter) |-> [l.filter[k] EXCEPT !.value = Plain(@)]]]

\* C29: whatever the string values are (a filter value, a payload value, an
\* etag, the id of Delete and of the etag pre-check), the statement built has
\* the structure of the statement built for plain values: each value stays
\* inside its own literal
C29_LiteralContainment ==
    LET a == args[Caller]
        s == Structure(statement[Caller].str, 1)
    IN (statement[Caller] # Unset /\ statement[Caller].err = "nil") =>
           CASE op[Caller] = "getSelect" ->
                  s = Structure(SelectStatement(PlainLookup(a.lookup), a.offset, a.limit).str, 1)
             [] op[Caller] = "getDelete" ->
                  s = Structure(DeleteStatement(PlainLookup(a.lookup)).str, 1)
             [] op[Caller] = "getUpdate" ->
                  \E keys \in Perms(PayloadKeys(a.item)) :
                      s = Structure(UpdateStatement(PlainItem(a.item), PlainItem(a.original), keys).str, 1)
             [] op[Caller] = "getInsert" ->
                  \E keys \in Perms(PayloadKeys(a.item)) :
                      s = Structure(InsertStatement(PlainItem(a.item), keys).str, 1)
             [] op[Caller] = "Delete" ->
                  s = Structure(DeleteByIdStatement(PlainItem(a.item)).str, 1)
             [] op[Caller] = "compareEtags" ->
                  s = Structure(EtagStatement("x").str, 1)

\* the pattern between the quotes of the clause of a string Equal / NotEqual
PatternOf(e, str) ==
    LET head == Len(e.field) + (IF e.op = "Equal" THEN Len(" LIKE '") ELSE Len(" NOT LIKE '"))
    IN SubSeq(str, head + 1, Len(str) - Len("' ESCAPE '\\'"))

\* the number of % of the pattern p the escape character does not precede
RECURSIVE Wildcards(_)
Wildcards(p) ==
    IF p = "" THEN 0
    ELSE IF SubSeq(p, 1, 1) = "\\" THEN Wildcards(SubSeq(p, 3, Len(p)))
    ELSE (IF SubSeq(p, 1, 1) = "%" THEN 1 ELSE 0) + Wildcards(SubSeq(p, 2, Len(p)))

\* C30: the pattern of a string Equal / NotEqual has one unescaped % for each
\* * of the value and no other; the row is selected by Equal (NotEqual) iff
\* its text matches (does not match) the value with * standing for any run of
\* characters and every other character, % and backslash included, for
\* itself; so a value without * selects exactly the equal text
C30_WildcardsFromStar ==
    \A e \in {args[Caller].lookup.filter[k] : k \in 1..Len(args[Caller].lookup.filter)} :
        LikeFind(e) =>
            LET v == e.value.val
                hit == found[Caller].items # <<>>
            IN /\ Wildcards(PatternOf(e, clause[Caller].str)) = Count("*", v, Len(v))
               /\ \A r \in table :
                     /\ e.op = "Equal" => (hit <=> GlobMatch(r.f1.val, v))
                     /\ e.op = "NotEqual" => (hit <=> ~GlobMatch(r.f1.val, v))
                     /\ (e.op = "Equal" /\ ~Occurs("*", v)) => (hit <=> r.f1.val = v)
====
